---- MODULE Spec2Model ----
(***************************************************************************)
(* Model of generate_unique_wasm.py: a batch generator that splices a      *)
(* uniquely tagged custom section into copies of one source WASM binary.   *)
(*                                                                         *)
(* Bytes are integers 0..255, byte strings are sequences of bytes.  Text   *)
(* strings are sequences of characters, a character being a one-character  *)
(* TLA+ string (the two non-ASCII characters used as label inputs are      *)
(* written by their code point, "U+00E9" and "U+20AC").                    *)
(***************************************************************************)
EXTENDS Integers, Sequences, FiniteSets, TLC

VARIABLES
    \* ---- one run of generate_unique_wasm -------------------------------
    pc,            \* position of the run in generate_unique_wasm
    output_dir,    \* argument: output directory path
    prefix,        \* argument: filename prefix
    count,         \* argument: number of files to generate
    source_file,   \* bytes stored in the file at source_path
    dir_state,     \* what output_dir is on disk: "absent", "dir" or "file"
    made_dirs,     \* whether this run has created output_dir
    files,         \* files written below output_dir: path -> bytes on disk
    manifest_file, \* manifest.txt on disk: [exists, lines]
    source_data,   \* local: the source buffer
    manifest,      \* local: list of (output_path, file_hash)
    i,             \* local: loop index
    iterations,    \* the locals of each loop iteration that built a binary
    console,       \* lines printed so far
    ret,           \* value returned by generate_unique_wasm
    \* ---- the length-prefix loop applied to one value --------------------
    leb_val,       \* input of the loop (content_len)
    leb_out,       \* [done, bytes]
    \* ---- create_custom_section applied to one (name, data) --------------
    sec_name,      \* argument name
    sec_data,      \* argument data
    sec_ret,       \* [called, raised, value]
    \* ---- the output naming applied to two indices of one run ------------
    nm_count,      \* requested count
    nm_i,          \* an index in 1..nm_count
    nm_j,          \* an index in 1..nm_count
    nm_out         \* [done, a, b]: the two output filenames

runVars  == <<pc, output_dir, prefix, count, source_file, dir_state, made_dirs, files,
              manifest_file, source_data, manifest, i, iterations, console, ret>>
lebVars  == <<leb_val, leb_out>>
secVars  == <<sec_name, sec_data, sec_ret>>
nameVars == <<nm_count, nm_i, nm_j, nm_out>>
vars     == <<runVars, lebVars, secVars, nameVars>>

----------------------------------------------------------------------------
(* Bounds of the model *)

\* largest count a modelled run is asked for
MaxCount == 3
\* the length-prefix loop is applied to every value 0..MaxLebVal (and to
\* the boundary values of LebBoundary)
MaxLebVal == 300

(* Program constants *)

\* wasm_data[:8] / wasm_data[8:]
HeaderLen == 8
\* os.urandom(32)
RandLen == 32
\* {i:05d}
PadWidth == 5
\* i % 100 == 0
ProgressEvery == 100

----------------------------------------------------------------------------
(* Sequence helpers *)

Min(a, b) == IF a < b THEN a ELSE b
Max(a, b) == IF a > b THEN a ELSE b

\* n copies of x
Rep(x, n) == [k \in 1..n |-> x]

\* Python slices s[:n] and s[n:] (both clamp to the length of s)
SliceTo(s, n)   == SubSeq(s, 1, Min(n, Len(s)))
SliceFrom(s, n) == SubSeq(s, n + 1, Len(s))

----------------------------------------------------------------------------
(* Text: str.encode('utf-8'), decimal formatting, os.path.join *)

\* code point of the ASCII characters the program handles
Ord(c) ==
    CASE c = "_" -> 95  [] c = "a" -> 97  [] c = "e" -> 101 [] c = "i" -> 105
      [] c = "n" -> 110 [] c = "q" -> 113 [] c = "t" -> 116 [] c = "u" -> 117
      [] c = "0" -> 48  [] c = "1" -> 49  [] c = "2" -> 50  [] c = "3" -> 51
      [] c = "4" -> 52  [] c = "5" -> 53  [] c = "6" -> 54  [] c = "7" -> 55
      [] c = "8" -> 56  [] c = "9" -> 57

\* UTF-8 bytes of one character: one byte below U+0080, two below U+0800,
\* three below U+10000
Utf8Char(c) ==
    CASE c = "U+00E9" -> <<195, 169>>
      [] c = "U+20AC" -> <<226, 130, 172>>
      [] OTHER        -> <<Ord(c)>>

\* the UTF-8 bytes of characters lo..hi of s, in order
RECURSIVE EncodeRange(_, _, _)
EncodeRange(s, lo, hi) ==
    IF lo > hi THEN <<>>
    ELSE IF lo = hi THEN Utf8Char(s[lo])
    ELSE LET mid == (lo + hi) \div 2
         IN  EncodeRange(s, lo, mid) \o EncodeRange(s, mid + 1, hi)

\* name.encode('utf-8')
encode_utf8(s) == EncodeRange(s, 1, Len(s))

DigitChar(d) ==
    CASE d = 0 -> "0" [] d = 1 -> "1" [] d = 2 -> "2" [] d = 3 -> "3"
      [] d = 4 -> "4" [] d = 5 -> "5" [] d = 6 -> "6" [] d = 7 -> "7"
      [] d = 8 -> "8" [] d = 9 -> "9"

\* str(n) for n >= 0: the decimal digits, most significant first
RECURSIVE Decimal(_)
Decimal(n) == IF n < 10 THEN <<DigitChar(n)>>
              ELSE Append(Decimal(n \div 10), DigitChar(n % 10))

RECURSIVE Pow10(_)
Pow10(k) == IF k = 0 THEN 1 ELSE 10 * Pow10(k - 1)

\* a formatter of exactly W digits: the low W digits of n, zero-padded
format_0d_fixed_width(n, W) ==
    LET d == Decimal(n % Pow10(W)) IN Rep("0", Max(0, W - Len(d))) \o d

\* f"{n:0Wd}" for n >= 0: the decimal digits, left-padded with zeros to a
\* MINIMUM width of W; a longer number is kept whole
format_0d(n, W) ==
    LET d == Decimal(n) IN Rep("0", Max(0, W - Len(d))) \o d

\* f"unique_{i}"
section_name(idx) == <<"u", "n", "i", "q", "u", "e", "_">> \o Decimal(idx)

\* a filename without the index
output_filename_no_index(pfx, idx) == pfx \o <<".", "w", "a", "s", "m">>

\* f"{prefix}_{i:05d}.wasm"
output_filename(pfx, idx) ==
    pfx \o <<"_">> \o format_0d(idx, PadWidth) \o <<".", "w", "a", "s", "m">>

\* os.path.join(a, b) on POSIX
os_path_join(a, b) ==
    IF b # <<>> /\ b[1] = "/" THEN b
    ELSE IF a = <<>> \/ a[Len(a)] = "/" THEN a \o b
    ELSE a \o <<"/">> \o b

ManifestName == <<"m", "a", "n", "i", "f", "e", "s", "t", ".", "t", "x", "t">>

----------------------------------------------------------------------------
(* Bytes: bytes([n]), struct.pack('<I', i), the digest *)

\* struct.pack('<I', n): the four bytes of n, least significant first
\* (n < 2^32; every integer of the model is below 2^31)
struct_pack_I(n) ==
    <<n % 256, (n \div 256) % 256, (n \div 65536) % 256, (n \div 16777216) % 256>>

HexChar(d) ==
    CASE d < 10 -> DigitChar(d)
      [] d = 10 -> "a" [] d = 11 -> "b" [] d = 12 -> "c"
      [] d = 13 -> "d" [] d = 14 -> "e" [] d = 15 -> "f"

\* sum of k * (b[k] + 1) over positions lo..hi, modulo 65521
RECURSIVE DigestRange(_, _, _)
DigestRange(b, lo, hi) ==
    IF lo > hi THEN 0
    ELSE IF lo = hi THEN (lo * (b[lo] + 1)) % 65521
    ELSE LET mid == (lo + hi) \div 2
         IN  (DigestRange(b, lo, mid) + DigestRange(b, mid + 1, hi)) % 65521

\* hashlib.sha256(b).hexdigest(): a deterministic function of the bytes
\* alone, rendered in lower-case hex.  SHA-256 itself is library code; it
\* is stood in for by a position-weighted 16-bit checksum.
sha256_hexdigest(b) ==
    LET h == DigestRange(b, 1, Len(b))
    IN  <<HexChar((h \div 4096) % 16), HexChar((h \div 256) % 16),
          HexChar((h \div 16) % 16), HexChar(h % 16)>>

----------------------------------------------------------------------------
(* create_custom_section *)

\* one pass of the "while True" loop per call: emit the low 7 bits, shift,
\* set the continuation bit when bits remain, stop when none remain
RECURSIVE leb128_loop(_, _)
leb128_loop(val, leb) ==
    LET byte0 == val % 128
        val1  == val \div 128
        byte  == IF val1 # 0 THEN byte0 + 128 ELSE byte0
        leb1  == Append(leb, byte)
    IN  IF val1 = 0 THEN leb1 ELSE leb128_loop(val1, leb1)

\* the same loop with the continuation test made before the shift
RECURSIVE leb128_loop_early_test(_, _)
leb128_loop_early_test(val, leb) ==
    LET byte0 == val % 128
        byte  == IF val # 0 THEN byte0 + 128 ELSE byte0
        val1  == val \div 128
        leb1  == Append(leb, byte)
    IN  IF val1 = 0 THEN leb1 ELSE leb128_loop_early_test(val1, leb1)

leb128_len_early_test(content_len) == leb128_loop_early_test(content_len, <<>>)

\* leb128_len = [] ... the loop ... : the encoding of content_len
leb128_len(content_len) == leb128_loop(content_len, <<>>)

\* bytes([n]) that keeps the low 8 bits instead of raising
bytes_of_int_truncating(n) == [raised |-> FALSE, value |-> <<n % 256>>]

\* bytes([n]): one byte, and ValueError unless 0 <= n <= 255
bytes_of_int(n) ==
    IF n \in 0..255 THEN [raised |-> FALSE, value |-> <<n>>]
    ELSE [raised |-> TRUE, value |-> <<>>]

\* create_custom_section with content_len taken before the length byte is
\* prepended
create_custom_section_short_len(name, data) ==
    LET name_bytes == encode_utf8(name)
        b          == bytes_of_int(Len(name_bytes))
        content    == b.value \o name_bytes \o data
    IN  IF b.raised THEN [raised |-> TRUE, value |-> <<>>]
        ELSE [raised |-> FALSE,
              value  |-> <<0>> \o leb128_len(Len(name_bytes) + Len(data)) \o content]

\* create_custom_section(name, data): [raised, value]; raised when
\* bytes([name_len]) raises ValueError
create_custom_section(name, data) ==
    LET name_bytes  == encode_utf8(name)
        name_len    == Len(name_bytes)
        b           == bytes_of_int(name_len)
        content     == b.value \o name_bytes \o data
        content_len == Len(content)
    IN  IF b.raised THEN [raised |-> TRUE, value |-> <<>>]
        ELSE [raised |-> FALSE,
              value  |-> <<0>> \o leb128_len(content_len) \o content]

----------------------------------------------------------------------------
(* add_custom_section *)

\* add_custom_section that resumes the source one byte late
add_custom_section_skip(wasm_data, section_data) ==
    SliceTo(wasm_data, HeaderLen) \o section_data \o SliceFrom(wasm_data, HeaderLen + 1)

\* add_custom_section(wasm_data, section_data)
add_custom_section(wasm_data, section_data) ==
    LET header == SliceTo(wasm_data, HeaderLen)
        rest   == SliceFrom(wasm_data, HeaderLen)
    IN  header \o section_data \o rest

----------------------------------------------------------------------------
(* The values each part of the state has while another part is exercised *)

NoRet == [returned |-> FALSE, value |-> <<>>]

RunIdle ==
    /\ pc = "idle" /\ output_dir = <<>> /\ prefix = <<>> /\ count = 0
    /\ source_file = <<>> /\ dir_state = "absent" /\ made_dirs = FALSE /\ files = <<>>
    /\ manifest_file = [exists |-> FALSE, lines |-> <<>>]
    /\ source_data = <<>> /\ manifest = <<>> /\ i = 0 /\ iterations = <<>>
    /\ console = <<>> /\ ret = NoRet

LebIdle == leb_val = 0 /\ leb_out = [done |-> FALSE, bytes |-> <<>>]

SecIdle ==
    /\ sec_name = <<>> /\ sec_data = <<>>
    /\ sec_ret = [called |-> FALSE, raised |-> FALSE, value |-> <<>>]

NameIdle ==
    /\ nm_count = 0 /\ nm_i = 0 /\ nm_j = 0
    /\ nm_out = [done |-> FALSE, a |-> <<>>, b |-> <<>>]

----------------------------------------------------------------------------
(* The length-prefix loop on its own *)

\* boundary values of the 7-bit groups
LebBoundary == {16383, 16384, 16385, 2097151, 2097152}
LebInputs   == (0..MaxLebVal) \cup LebBoundary

InitLeb ==
    /\ leb_val \in LebInputs
    /\ leb_out = [done |-> FALSE, bytes |-> <<>>]
    /\ RunIdle /\ SecIdle /\ NameIdle

\* lines 36-45 run on val = leb_val
EncodeLength ==
    /\ ~leb_out.done
    /\ leb_out' = [done |-> TRUE, bytes |-> leb128_len(leb_val)]
    /\ UNCHANGED <<leb_val, runVars, secVars, nameVars>>

NextLeb == EncodeLength
SpecLeb == InitLeb /\ [][NextLeb]_vars

----------------------------------------------------------------------------
(* create_custom_section on its own *)

\* labels: the program's own, the empty one, and labels whose UTF-8 length
\* lies on either side of 127/128 and 255/256 bytes, some of them with
\* fewer characters than bytes
Labels ==
    {section_name(1), section_name(12345), <<>>}
    \cup {Rep("a", n) : n \in {1, 90, 91, 126, 127, 254, 255, 256, 300}}
    \cup {Rep("U+00E9", n) : n \in {1, 127, 128, 150}}
    \cup {Rep("U+20AC", n) : n \in {85, 86}}

Payloads ==
    {<<>>, <<7>>, Rep(255, RandLen) \o struct_pack_I(1), Rep(0, 100), Rep(128, 200)}

InitSection ==
    /\ sec_name \in Labels
    /\ sec_data \in Payloads
    /\ sec_ret = [called |-> FALSE, raised |-> FALSE, value |-> <<>>]
    /\ RunIdle /\ LebIdle /\ NameIdle

\* one call create_custom_section(sec_name, sec_data)
CallCreateCustomSection ==
    /\ ~sec_ret.called
    /\ LET r == create_custom_section(sec_name, sec_data)
       IN  sec_ret' = [called |-> TRUE, raised |-> r.raised, value |-> r.value]
    /\ UNCHANGED <<sec_name, sec_data, runVars, lebVars, nameVars>>

NextSection == CallCreateCustomSection
SpecSection == InitSection /\ [][NextSection]_vars

----------------------------------------------------------------------------
(* The output naming on its own *)

Prefixes == {<<"u", "n", "i", "q", "u", "e">>, <<"t">>}

\* requested counts on both sides of 99999
NameCounts  == {MaxCount, 99999, 100000, 100001, 200000}
\* indices on both sides of 99999, among them pairs that agree in their
\* last five digits
NameIndices == {1, 2, 10, 11, 9999, 10000, 99999, 100000, 100001, 100002,
                100010, 110000, 199999, 200000}

InitName ==
    /\ nm_count \in NameCounts
    /\ nm_i \in {n \in NameIndices : n <= nm_count}
    /\ nm_j \in {n \in NameIndices : n <= nm_count}
    /\ nm_out = [done |-> FALSE, a |-> <<>>, b |-> <<>>]
    /\ pc = "idle" /\ output_dir = <<>> /\ prefix \in Prefixes /\ count = 0
    /\ source_file = <<>> /\ dir_state = "absent" /\ made_dirs = FALSE /\ files = <<>>
    /\ manifest_file = [exists |-> FALSE, lines |-> <<>>]
    /\ source_data = <<>> /\ manifest = <<>> /\ i = 0 /\ iterations = <<>>
    /\ console = <<>> /\ ret = NoRet
    /\ LebIdle /\ SecIdle

\* line 89 evaluated in iterations nm_i and nm_j of one run
FormatNames ==
    /\ ~nm_out.done
    /\ nm_out' = [done |-> TRUE,
                  a    |-> output_filename(prefix, nm_i),
                  b    |-> output_filename(prefix, nm_j)]
    /\ UNCHANGED <<nm_count, nm_i, nm_j, runVars, lebVars, secVars>>

NextName == FormatNames
SpecName == InitName /\ [][NextName]_vars

----------------------------------------------------------------------------
(* One run of generate_unique_wasm *)

OutputDirs == {<<"o", "u", "t">>, <<"o", "u", "t", "/">>}

\* the example source (WASM magic, version 1, two body bytes), a source
\* that is a header only, and a source shorter than a header
SourceFiles ==
    {<<0, 97, 115, 109, 1, 0, 0, 0, 170, 187>>,
     <<0, 97, 115, 109, 1, 0, 0, 0>>,
     <<0, 97, 115>>}

\* what os.urandom(RandLen) may return; the same value may come back in
\* every iteration
RandomOutputs == {Rep(0, RandLen), [k \in 1..RandLen |-> (7 * k) % 256]}

\* how many bytes of data a failed f.write(data) may leave in the file
PartialCuts(data) == 0..(Len(data) - 1)

\* f"{path}\t{hash_val}\n"
manifest_line(path, hash_val) == path \o <<"\t">> \o hash_val \o <<"\n">>

\* the output path of iteration idx
output_path_of(idx) == os_path_join(output_dir, output_filename(prefix, idx))

Init ==
    /\ pc = "start"
    /\ output_dir \in OutputDirs
    /\ prefix \in Prefixes
    /\ count \in 0..MaxCount
    /\ source_file \in SourceFiles
    /\ dir_state \in {"absent", "dir", "file"}
    /\ made_dirs = FALSE
    /\ files = <<>>
    /\ manifest_file = [exists |-> FALSE, lines |-> <<>>]
    /\ source_data = <<>> /\ manifest = <<>> /\ i = 0 /\ iterations = <<>>
    /\ console = <<>> /\ ret = NoRet
    /\ LebIdle /\ SecIdle /\ NameIdle

\* the run ends with an uncaught exception; state on disk stays as it is
Abort == pc' = "aborted"

\* os.makedirs that creates nothing
makedirs_noop(state) == state

\* os.makedirs(output_dir) on a path that does not exist
makedirs(state) == "dir"

\* lines 63-64: if not os.path.exists(output_dir): os.makedirs(output_dir)
EnsureOutputDir ==
    /\ pc = "start"
    /\ \/ /\ dir_state # "absent"
          /\ pc' = "read"
          /\ UNCHANGED <<dir_state, made_dirs>>
       \/ /\ dir_state = "absent"
          /\ dir_state' = makedirs(dir_state)
          /\ made_dirs' = TRUE
          /\ pc' = "read"
       \/ /\ dir_state = "absent"       \* makedirs raises OSError
          /\ Abort
          /\ UNCHANGED <<dir_state, made_dirs>>
    /\ UNCHANGED <<output_dir, prefix, count, source_file, files, manifest_file,
                   source_data, manifest, i, iterations, console, ret,
                   lebVars, secVars, nameVars>>

\* lines 67-68: source_data = read_wasm(source_path); manifest = []
ReadSource ==
    /\ pc = "read"
    /\ \/ /\ source_data' = source_file
          /\ manifest' = <<>>
          /\ i' = 1
          /\ pc' = "loop"
       \/ /\ Abort                      \* open(path, 'rb') raises OSError
          /\ UNCHANGED <<source_data, manifest, i>>
    /\ UNCHANGED <<output_dir, prefix, count, source_file, dir_state, made_dirs, files,
                   manifest_file, iterations, console, ret,
                   lebVars, secVars, nameVars>>

\* the payload of iteration idx given what os.urandom returned
unique_data_same(rnd, idx) == rnd \o struct_pack_I(0)

\* line 73: os.urandom(32) + struct.pack('<I', i)
unique_data_of(rnd, idx) == rnd \o struct_pack_I(idx)

\* the bytes hashed in line 85, were the source hashed instead of the
\* generated binary
hashed_bytes_source(new_wasm) == source_data

\* line 85: the bytes handed to sha256
hashed_bytes(new_wasm) == new_wasm

\* lines 73-90: what one pass of the loop body computes before it writes,
\* for index idx, given what os.urandom returned
iteration_locals(rnd, idx) ==
    LET unique_data    == unique_data_of(rnd, idx)
        section        == create_custom_section(section_name(idx), unique_data)
        custom_section == section.value
        new_wasm       == add_custom_section(source_data, custom_section)
        file_hash      == sha256_hexdigest(hashed_bytes(new_wasm))
        output_path    == output_path_of(idx)
    IN  [i |-> idx, unique_data |-> unique_data, raised |-> section.raised,
         custom_section |-> custom_section, new_wasm |-> new_wasm,
         file_hash |-> file_hash, output_path |-> output_path]

\* lines 71-98: one pass of the loop body, for index i
Iterate ==
    /\ pc = "loop"
    /\ i <= count
    /\ \E locals \in {iteration_locals(rnd, i) : rnd \in RandomOutputs} :
        IF locals.raised \/ dir_state # "dir"
        THEN \* create_custom_section raises, or open(path, 'wb') does
             \* because output_dir is no directory
             /\ Abort
             /\ iterations' = IF locals.raised THEN iterations
                              ELSE Append(iterations, locals)
             /\ UNCHANGED <<files, manifest, i, console>>
        ELSE /\ iterations' = Append(iterations, locals)
             /\ \/ \* write_wasm succeeds
                   /\ files' = (locals.output_path :> locals.new_wasm) @@ files
                   /\ manifest' = Append(manifest, <<locals.output_path, locals.file_hash>>)
                   /\ console' = IF i % ProgressEvery = 0
                                 THEN Append(console, <<"Generated", i, count>>)
                                 ELSE console
                   /\ i' = i + 1
                   /\ pc' = "loop"
                \/ \* open(path, 'wb') raises OSError
                   /\ Abort
                   /\ UNCHANGED <<files, manifest, i, console>>
                \/ \* f.write(data) raises after the file was created
                   /\ \E n \in PartialCuts(locals.new_wasm) :
                        files' = (locals.output_path :> SubSeq(locals.new_wasm, 1, n))
                                   @@ files
                   /\ Abort
                   /\ UNCHANGED <<manifest, i, console>>
    /\ UNCHANGED <<output_dir, prefix, count, source_file, dir_state, made_dirs,
                   manifest_file, source_data, ret, lebVars, secVars, nameVars>>

\* the lines of all records but the last
manifest_lines_but_last(m) ==
    [k \in 1..(Len(m) - 1) |-> manifest_line(m[k][1], m[k][2])]

\* the lines of manifest.txt, one per record
manifest_lines(m) == [k \in 1..Len(m) |-> manifest_line(m[k][1], m[k][2])]

\* lines 101-105: write the manifest, after the loop
WriteManifest ==
    /\ pc = "loop"
    /\ i > count
    /\ IF dir_state # "dir"
       THEN \* open(manifest_path, 'w') raises: output_dir is no directory
            /\ Abort
            /\ UNCHANGED manifest_file
       ELSE \/ \* every line written, file closed
               /\ manifest_file' = [exists |-> TRUE, lines |-> manifest_lines(manifest)]
               /\ pc' = "written"
            \/ \* open(manifest_path, 'w') raises OSError
               /\ Abort
               /\ UNCHANGED manifest_file
            \/ \* a write, or the flush at close, raises after the file was
               \* created: some of the lines are on disk
               /\ \E n \in 0..Len(manifest_lines(manifest)) :
                    manifest_file' = [exists |-> TRUE,
                                      lines  |-> SubSeq(manifest_lines(manifest), 1, n)]
               /\ Abort
    /\ UNCHANGED <<output_dir, prefix, count, source_file, dir_state, made_dirs, files,
                   source_data, manifest, i, iterations, console, ret,
                   lebVars, secVars, nameVars>>

\* lines 108-112: the two summary lines, return manifest
Return ==
    /\ pc = "written"
    /\ LET summary == <<<<"Generated", count, output_dir>>,
                        <<"Manifest", os_path_join(output_dir, ManifestName)>>>>
       IN  \/ /\ console' = console \o summary
              /\ ret' = [returned |-> TRUE, value |-> manifest]
              /\ pc' = "done"
           \/ \* a print raises OSError (stdout closed): nothing is returned
              /\ \E n \in {0, 1} : console' = console \o SubSeq(summary, 1, n)
              /\ Abort
              /\ UNCHANGED ret
    /\ UNCHANGED <<output_dir, prefix, count, source_file, dir_state, made_dirs, files,
                   manifest_file, source_data, manifest, i, iterations,
                   lebVars, secVars, nameVars>>

Next == EnsureOutputDir \/ ReadSource \/ Iterate \/ WriteManifest \/ Return

Spec == Init /\ [][Next]_vars

----------------------------------------------------------------------------
(* Reading a block back, as a loader does *)

\* the value of base-128 groups, least significant first
RECURSIVE LebValue(_)
LebValue(bs) ==
    IF bs = <<>> THEN 0 ELSE (Head(bs) % 128) + 128 * LebValue(Tail(bs))

\* does a byte < 128 (a final group) occur in v at or after position from
HasLebEnd(v, from) == \E k \in from..Len(v) : v[k] < 128

\* number of bytes of the length prefix that starts at position from of v
LebPrefixLen(v, from) ==
    (CHOOSE k \in from..Len(v) :
        v[k] < 128 /\ \A m \in from..(k - 1) : v[m] >= 128) - from + 1

RECURSIVE Pow128(_)
Pow128(k) == IF k = 0 THEN 1 ELSE 128 * Pow128(k - 1)

----------------------------------------------------------------------------
(* C2 *)

\* C2: for every non-negative n the loop yields at least one byte, every
\* byte but the last has its high bit set, the last has it clear, the
\* encoding has no trailing zero group and is the shortest one (n needs all
\* its groups), and the groups decode to n; 0, 127, 128, 300 and 16384
\* encode as 00, 7f, 80 01, ac 02 and 80 80 01.
C2_LengthPrefixMinimalRoundTrip ==
    leb_out.done =>
        LET bs == leb_out.bytes
            n  == Len(bs)
        IN  /\ n >= 1
            /\ \A k \in 1..n : bs[k] \in 0..255
            /\ \A k \in 1..(n - 1) : bs[k] >= 128
            /\ bs[n] < 128
            /\ (n > 1 => bs[n] # 0)
            /\ (n > 1 => leb_val >= Pow128(n - 1))
            /\ LebValue(bs) = leb_val
            /\ (leb_val = 0 => bs = <<0>>)
            /\ (leb_val = 127 => bs = <<127>>)
            /\ (leb_val = 128 => bs = <<128, 1>>)
            /\ (leb_val = 300 => bs = <<172, 2>>)
            /\ (leb_val = 16384 => bs = <<128, 128, 1>>)

\* a three-group value has been encoded
C2_Witness ==
    leb_out.done /\ leb_val = 16384 /\ Len(leb_out.bytes) = 3

----------------------------------------------------------------------------
(* C3 *)

----------------------------------------------------------------------------
(* C8 *)

----------------------------------------------------------------------------
(* C9 *)

\* the indices of NameIndices a run of nm_count iterations goes through
NameIndicesOfRun == {n \in NameIndices : n <= nm_count}

\* C9 as stated: with a count above 99999 two distinct indices of the run
\* get the same output filename.
C9_NamesCollide ==
    (nm_out.done /\ nm_count > 99999) =>
        \E a, b \in NameIndicesOfRun :
            a # b /\ output_filename(prefix, a) = output_filename(prefix, b)

\* C9 (amended): with a count above 99999 the naming keeps its uniqueness:
\* distinct indices get distinct filenames, also when they agree in their
\* last five digits, because the 5-digit padding is a minimum width; what
\* is lost is the fixed width, an index above 99999 having a longer name.
C9_NamesStayDistinct ==
    nm_out.done =>
        /\ (nm_i # nm_j => nm_out.a # nm_out.b)
        /\ (nm_i = nm_j => nm_out.a = nm_out.b)
        /\ Len(nm_out.a) = Len(prefix) + 1 + Max(PadWidth, Len(Decimal(nm_i))) + 5
        /\ (nm_i > 99999 => Len(nm_out.a) > Len(prefix) + 1 + PadWidth + 5)

\* the names of indices 1 and 100001 of one run have been formed
C9_Witness ==
    /\ nm_out.done /\ nm_count > 99999
    /\ nm_i = 1 /\ nm_j = 100001
    /\ nm_out.a # nm_out.b

----------------------------------------------------------------------------
(* C1 *)

\* C1: with a source S of at least 8 bytes, the binary built in every
\* iteration is S[0..8) ++ block ++ S[8..): its length is len(S) plus the
\* block's, its first 8 bytes are S's, the block follows, and from offset
\* 8 + len(block) on it holds S from offset 8 on; the buffer spliced into
\* is, in every iteration, the bytes read from the source file; a binary
\* recorded in the manifest is on disk as built.
C1_HeaderBlockBody ==
    (iterations # <<>> /\ Len(source_file) >= HeaderLen) =>
        /\ source_data = source_file
        /\ \A k \in DOMAIN iterations :
            LET S == source_file
                B == iterations[k].custom_section
                G == iterations[k].new_wasm
            IN  /\ Len(G) = Len(S) + Len(B)
                /\ SubSeq(G, 1, HeaderLen) = SubSeq(S, 1, HeaderLen)
                /\ SubSeq(G, HeaderLen + 1, HeaderLen + Len(B)) = B
                /\ SubSeq(G, HeaderLen + Len(B) + 1, Len(G))
                     = SubSeq(S, HeaderLen + 1, Len(S))
                /\ (k <= Len(manifest) => files[iterations[k].output_path] = G)

\* two binaries have been built and written from a source with a body
C1_Witness ==
    /\ Len(iterations) >= 2 /\ Len(manifest) >= 2
    /\ Len(source_data) > HeaderLen
    /\ iterations[1].custom_section # iterations[2].custom_section

----------------------------------------------------------------------------
(* C4 *)

\* C4: a completed run with count N >= 1 has written exactly N files,
\* those named <prefix>_<index padded to 5 digits>.wasm for the indices
\* 1..N, their names pairwise distinct; manifest.txt holds exactly N lines
\* and the returned list exactly N records.
C4_CompletedRunCounts ==
    (pc = "done" /\ count >= 1) =>
        /\ Cardinality(DOMAIN files) = count
        /\ DOMAIN files = {output_path_of(k) : k \in 1..count}
        /\ \A a, b \in 1..count :
             a # b => output_filename(prefix, a) # output_filename(prefix, b)
        /\ \A k \in 1..count :
             output_filename(prefix, k)
               = prefix \o <<"_", "0", "0", "0", "0", DigitChar(k), ".", "w", "a", "s", "m">>
        /\ manifest_file.exists
        /\ Len(manifest_file.lines) = count
        /\ ret.returned
        /\ Len(ret.value) = count

\* a run asked for three files has completed
C4_Witness ==
    pc = "done" /\ count = 3 /\ Cardinality(DOMAIN files) = 3

----------------------------------------------------------------------------
(* C5 *)

\* the 4 bytes at the end of a payload, read as a little-endian number
PayloadIndex(u) ==
    u[RandLen + 1] + 256 * u[RandLen + 2] + 65536 * u[RandLen + 3]
      + 16777216 * u[RandLen + 4]

\* C5: every payload is 32 bytes followed by the little-endian index of
\* its iteration; any two iterations of a run have distinct indices,
\* distinct payloads and distinct binaries, whatever the random source
\* returned.
C5_PayloadsDiffer ==
    /\ \A k \in DOMAIN iterations :
        /\ Len(iterations[k].unique_data) = RandLen + 4
        /\ PayloadIndex(iterations[k].unique_data) = iterations[k].i
    /\ \A a, b \in DOMAIN iterations :
        a # b =>
            /\ iterations[a].i # iterations[b].i
            /\ iterations[a].unique_data # iterations[b].unique_data
            /\ iterations[a].new_wasm # iterations[b].new_wasm

\* two iterations have drawn the same 32 random bytes
C5_Witness ==
    /\ Len(iterations) >= 2
    /\ SubSeq(iterations[1].unique_data, 1, RandLen)
         = SubSeq(iterations[2].unique_data, 1, RandLen)

----------------------------------------------------------------------------
(* C6 *)

\* the binaries of iterations 1..n are on disk, whole
BinariesWritten(n) ==
    \A k \in 1..n :
        /\ k <= Len(iterations)
        /\ output_path_of(k) \in DOMAIN files
        /\ files[output_path_of(k)] = iterations[k].new_wasm

\* manifest.txt holds one line per record of the in-memory list
ManifestComplete ==
    /\ manifest_file.exists
    /\ Len(manifest_file.lines) = Len(manifest)
    /\ \A k \in 1..Len(manifest) :
         manifest_file.lines[k] = manifest_line(manifest[k][1], manifest[k][2])

\* where a run can be: before one of its statements (each of which can
\* execute: the loop body while i <= count, the manifest writing once
\* i > count), returned, or ended by an exception
RunPosition ==
    /\ pc \in {"start", "read", "loop", "written", "done", "aborted"}
    /\ pc \in {"loop", "written", "done"} => (i \in 1..(count + 1) /\ Len(manifest) = i - 1)
    /\ pc \in {"written", "done"} => i = count + 1
    /\ ret.returned <=> pc = "done"

\* C6 as stated: a run asked for N >= 1 files ends completed, with all N binaries and the
\* manifest of N records written, or aborted, with only the binaries
\* written before the failure on disk and no manifest; the manifest is
\* never written before the N-th binary.
C6_TwoOutcomes ==
    count >= 1 =>
        /\ RunPosition
        /\ pc = "done" =>
             Len(manifest) = count /\ BinariesWritten(count) /\ ManifestComplete
        /\ pc = "aborted" =>
             /\ BinariesWritten(Len(manifest))
             /\ DOMAIN files = {output_path_of(k) : k \in 1..Len(manifest)}
             /\ ~manifest_file.exists
        /\ manifest_file.exists => (Len(manifest) = count /\ BinariesWritten(count))

\* C6 (amended): a run ends completed, with all N binaries and the
\* manifest of N records written, or aborted.  After an abort the binaries
\* of the iterations before the failure are on disk whole; the only other
\* file the run may have left is the one whose write failed, holding a
\* proper prefix of that iteration's binary; and manifest.txt is absent
\* if the failure came before it was opened and otherwise holds a
\* prefix of the N lines.  The manifest is never written before the N-th
\* binary.
C6_OutcomesWithPartialWrites ==
    /\ RunPosition
    /\ pc = "done" =>
         Len(manifest) = count /\ BinariesWritten(count) /\ ManifestComplete
    /\ pc = "aborted" =>
         LET n == Len(manifest)
         IN  /\ BinariesWritten(n)
             /\ DOMAIN files \subseteq {output_path_of(k) : k \in 1..(n + 1)}
             /\ output_path_of(n + 1) \in DOMAIN files =>
                  /\ Len(iterations) = n + 1
                  /\ \E m \in 0..(Len(iterations[n + 1].new_wasm) - 1) :
                       files[output_path_of(n + 1)]
                         = SubSeq(iterations[n + 1].new_wasm, 1, m)
             /\ manifest_file.exists =>
                  /\ Len(manifest_file.lines) <= n
                  /\ \A k \in 1..Len(manifest_file.lines) :
                       manifest_file.lines[k]
                         = manifest_line(manifest[k][1], manifest[k][2])
    /\ manifest_file.exists => (Len(manifest) = count /\ BinariesWritten(count))

\* a run has aborted in its second iteration, leaving the first binary
\* and no manifest
C6_Witness ==
    /\ pc = "aborted" /\ count >= 2
    /\ Len(manifest) = 1 /\ BinariesWritten(1)
    /\ ~manifest_file.exists

----------------------------------------------------------------------------
(* C7 *)

\* C7: once the run is past its first step the output path is not absent,
\* the step having created the directory if it was; a binary or the
\* manifest is on disk only if the directory exists, and every step that
\* writes one is taken with the directory in place.
C7_DirectoryBeforeWrites ==
    /\ [](pc \in {"read", "loop", "written", "done"} => dir_state # "absent")
    /\ []((files # <<>> \/ manifest_file.exists) => dir_state = "dir")
    /\ [][(pc = "start" /\ pc' = "read" /\ dir_state = "absent")
            => (dir_state' = "dir" /\ made_dirs')]_vars
    /\ [][(files' # files \/ manifest_file' # manifest_file)
            => (dir_state = "dir" /\ dir_state' = "dir")]_vars

\* a run that created the directory has written binaries and the manifest
C7_Witness ==
    /\ made_dirs /\ dir_state = "dir"
    /\ files # <<>> /\ manifest_file.exists

----------------------------------------------------------------------------
(* C10 *)

\* C10: after a completed run with count N, for every k in 1..N the k-th
\* returned record and the k-th manifest line hold the path of the file of
\* index k and the digest of the bytes that file holds, which are the
\* bytes written in iteration k; so the records are in index order, one
\* per index.
C10_ManifestMatchesFiles ==
    pc = "done" =>
        /\ Len(ret.value) = count
        /\ Len(manifest_file.lines) = count
        /\ Len(iterations) = count
        /\ \A k \in 1..count :
            LET path == output_path_of(k)
            IN  /\ iterations[k].i = k
                /\ ret.value[k][1] = path
                /\ path \in DOMAIN files
                /\ files[path] = iterations[k].new_wasm
                /\ ret.value[k][2] = sha256_hexdigest(files[path])
                /\ manifest_file.lines[k]
                     = path \o <<"\t">> \o sha256_hexdigest(files[path]) \o <<"\n">>

\* a run of at least two files has completed
C10_Witness ==
    /\ pc = "done" /\ count >= 2
    /\ Len(ret.value) = count
    /\ ret.value[1][2] # ret.value[2][2]

====
